---- MODULE Spec2Model ----
(***************************************************************************)
(* The letter wheel of wssgui/letter_wheel.py: the tiles (MyQGPixmapItem), *)
(* the gesture tracker (LetterAreaView) and the wheel controller           *)
(* (LetterArea), over a QGraphicsScene held as a set of items.             *)
(*                                                                         *)
(* Geometry is symbolic: a tile's angle 2*pi*i/n is the pair (idx, n), and *)
(* the anchor point offset_xy of a tile is named by the tile's id, so a    *)
(* path is the sequence of moveTo/lineTo calls with the tile whose anchor  *)
(* each call was given.                                                    *)
(***************************************************************************)
EXTENDS Integers, Sequences, FiniteSets, TLC

\* ------------------------------------------------------------------ bounds
\* Tiles ever created (make_word never removes one).
MaxTiles == 2
\* Longest word given to word_path.
MaxWord == 2
\* Live-path items on the scene at a time (every move of a drag adds one).
MaxGreen == 2

\* The letters used, a subset of the keys of LetterArea.letters.
Alphabet == {"A", "B"}

RECURSIVE WordsUpTo(_)
WordsUpTo(n) ==
    IF n = 0 THEN {<<>>}
    ELSE LET shorter == WordsUpTo(n - 1)
         IN  shorter \cup {Append(w, a) : w \in {v \in shorter : Len(v) = n - 1}, a \in Alphabet}

\* The words given to word_path: every word of up to MaxWord letters.
HighlightWords == WordsUpTo(MaxWord)

\* The words given to make_word: none, one letter, a letter twice, two letters.
LoadWords == {<<>>, <<"A">>, <<"A", "A">>, <<"A", "B">>}

VARIABLES
    tile,                   \* MyQGPixmapItem objects ever built: id -> fields
    scene,                  \* QGraphicsScene: the items on the surface
    wheel,                  \* LetterArea.wheel (<<>>: attribute not set yet)
    last_path_highlighted,  \* LetterArea.last_path_highlighted (0: False)
    mouse_pressed,          \* LetterAreaView.mouse_pressed
    selected_widgets_set,   \* LetterAreaView.selected_widgets_set
    selected_widgets_list,  \* LetterAreaView.selected_widgets_list
    has_highlighted,        \* LetterAreaView.has_highlighted
    paint_path,             \* LetterAreaView.paint_path
    last,                   \* the call handled last: its input and outcome
    emitted,                \* the signals the call handled last emitted
    gesture,                \* what the pointer did since the last press
    seen                    \* what a slot of mouseReleaseProc found when called

vars == <<tile, scene, wheel, last_path_highlighted, mouse_pressed,
          selected_widgets_set, selected_widgets_list, has_highlighted,
          paint_path, last, emitted, gesture, seen>>

area_vars == <<tile, scene, wheel, last_path_highlighted>>
view_vars == <<mouse_pressed, selected_widgets_set, selected_widgets_list,
               has_highlighted, paint_path>>

\* ---------------------------------------------------------------- helpers
Range(s) == {s[i] : i \in DOMAIN s}

Min(S) == CHOOSE x \in S : \A y \in S : x <= y

\* A join that loses the last tile (a faulty variant of JoinAlpha).
JoinDropLast(tl, list) ==
    [i \in 1..(IF Len(list) = 0 THEN 0 ELSE Len(list) - 1) |-> tl[list[i]].alpha]

\* "".join([x.alpha for x in list]) over a list of tiles
JoinAlpha(tl, list) == [i \in 1..Len(list) |-> tl[list[i]].alpha]

\* ------------------------------------------------------------ scene items
PixmapItem(t) == [kind |-> "pixmap", id |-> t, pen |-> "none", path |-> <<>>]

PathItem(k, colour, p) == [kind |-> "path", id |-> k, pen |-> colour, path |-> p]

MoveTo(t) == [op |-> "moveTo", to |-> t]
LineTo(t) == [op |-> "lineTo", to |-> t]
CloseSubpath == [op |-> "closeSubpath", to |-> 0]

Paths(sc, colour) == {it \in sc : it.kind = "path" /\ it.pen = colour}
Pixmaps(sc) == {it.id : it \in {x \in sc : x.kind = "pixmap"}}

\* A path item is a new object: it gets an identity no path item of its
\* colour on the scene has, nor the one last_path_highlighted holds.
NewPathId(sc, colour, held) ==
    Min({k \in 1..(Cardinality(sc) + 2) :
            /\ colour = "blue" => k # held
            /\ \A it \in Paths(sc, colour) : it.id # k})

\* moveTo the first anchor, lineTo the others
Polyline(list) ==
    [i \in 1..Len(list) |-> IF i = 1 THEN MoveTo(list[i]) ELSE LineTo(list[i])]

\* QGraphicsView.itemAt: the topmost item. A tile lies under a tile added
\* later at the same angle with the same glyph, so it cannot be hit.
SameAngle(a, b) == a.idx * b.n = b.idx * a.n

Covered(tl, t) ==
    \E u \in DOMAIN tl : u > t /\ SameAngle(tl[t], tl[u]) /\ tl[t].alpha = tl[u].alpha

\* What a pointer position can be over: a tile (its id) or no tile (0).
Targets == {0} \cup {t \in Pixmaps(scene) : ~Covered(tile, t)}

\* ------------------------------------------------- what a call leaves behind
\* showing: a replay highlight was held when the call was made
Call(name, word, at, outcome, selected, showing) ==
    [op |-> name, word |-> word, at |-> at, outcome |-> outcome,
     selected |-> selected, showing |-> showing]

MouseOverWidget(t) == [sig |-> "mouseOverWidget", widget |-> t, word |-> <<>>]
MouseReleaseProc(w) == [sig |-> "mouseReleaseProc", widget |-> 0, word |-> w]
ClearHighlight == [sig |-> "clearHighlight", widget |-> 0, word |-> <<>>]

\* No mouseReleaseProc was emitted by the call.
NotSeen == [live |-> {}, selection |-> <<>>]

NoGesture == [open |-> FALSE, clean |-> FALSE, visited |-> <<>>, entered |-> <<>>]

\* A call of the wheel controller made from outside the pointer handlers ends
\* the run of pointer events a gesture is made of.
Interrupted(g) ==
    IF g.open THEN [g EXCEPT !.clean = FALSE, !.visited = <<>>] ELSE NoGesture

\* ------------------------------------------------------- wheel controller
\* LetterArea.deselect, on the scene and last_path_highlighted
Deselected(sc, lph) ==
    IF lph # 0
    THEN [scene |-> {it \in sc : ~(it.kind = "path" /\ it.pen = "blue" /\ it.id = lph)}, lph |-> 0]
    ELSE [scene |-> sc, lph |-> lph]

\* word_path without its first step (a faulty variant of ClearExisting).
KeepExisting(sc, lph) == [scene |-> sc, lph |-> lph]

\* word_path: "Clear any existing highlighted word"
ClearExisting(sc, lph) ==
    IF lph # 0 THEN Deselected(sc, lph) ELSE [scene |-> sc, lph |-> lph]

\* The inner loop without its test of x.hit (a faulty variant of FirstUnused).
FirstMatching(tl, wh, w) ==
    LET at == {i \in DOMAIN wh : tl[wh[i]].alpha = w}
    IN  IF at = {} THEN 0 ELSE wh[Min(at)]

\* word_path, inner loop: the first x of the wheel with x.alpha = w that is
\* not hit (0: the loop ends without a break)
FirstUnused(tl, wh, w) ==
    LET at == {i \in DOMAIN wh : tl[wh[i]].alpha = w /\ ~tl[wh[i]].hit}
    IN  IF at = {} THEN 0 ELSE wh[Min(at)]

\* word_path, outer loop from the k-th letter of word on: the tiles with
\* their hit flags, and the list selected
RECURSIVE Collect(_, _, _, _, _)
Collect(tl, wh, word, k, sel) ==
    IF k > Len(word) THEN [tile |-> tl, selected |-> sel]
    ELSE LET x == FirstUnused(tl, wh, word[k])
         IN  IF x = 0 THEN Collect(tl, wh, word, k + 1, sel)
             ELSE Collect([tl EXCEPT ![x].hit = TRUE], wh, word, k + 1, Append(sel, x))

\* word_path without its reset loop (a faulty variant of ResetHits).
KeepHits(tl, wh) == tl

\* word_path: "for x in self.wheel: x.hit = False"
ResetHits(tl, wh) ==
    [t \in DOMAIN tl |-> IF t \in Range(wh) THEN [tl[t] EXCEPT !.hit = FALSE] ELSE tl[t]]

\* The slot the application connects to LetterAreaView.clearHighlight.
ClearHighlightSlot(sc, lph) == Deselected(sc, lph)

\* A tile numbered from 1 instead of 0 (a faulty variant of NewTile).
NewTileFromOne(word, i) ==
    [alpha |-> word[i], idx |-> i, n |-> Len(word), hit |-> FALSE]

\* MyQGPixmapItem(self.letters[alpha], i, len(word), alpha, ...) for the i-th
\* letter of word (i from 1 here, idx from 0 as enumerate gives it)
NewTile(word, i) ==
    [alpha |-> word[i], idx |-> i - 1, n |-> Len(word), hit |-> FALSE]

MakeWord(word) ==
    /\ Len(tile) + Len(word) <= MaxTiles
    /\ LET n == Len(word)
           letters == [i \in 1..n |-> Len(tile) + i]
           built == [i \in 1..n |-> NewTile(word, i)]
           added == scene \cup {PixmapItem(letters[i]) : i \in 1..n}
           path == <<MoveTo(letters[1])>> \o [i \in 1..n |-> LineTo(letters[i])]
                       \o <<CloseSubpath>>
       IN  IF n = 0
           THEN \* letters[0] of an empty list
                /\ UNCHANGED area_vars
                /\ last' = Call("make_word", word, 0, "IndexError", <<>>,
                             last_path_highlighted # 0)
           ELSE /\ tile' = tile \o built
                /\ scene' = added \cup
                       {PathItem(NewPathId(added, "red", 0), "red", path)}
                /\ wheel' = letters
                /\ UNCHANGED last_path_highlighted
                /\ last' = Call("make_word", word, 0, "ok", <<>>,
                             last_path_highlighted # 0)
    /\ emitted' = <<>>
    /\ gesture' = Interrupted(gesture)
    /\ seen' = NotSeen
    /\ UNCHANGED view_vars

WordPath(word) ==
    LET c == ClearExisting(scene, last_path_highlighted)
    IN  /\ emitted' = <<>>
        /\ gesture' = Interrupted(gesture)
        /\ seen' = NotSeen
        /\ UNCHANGED <<wheel, mouse_pressed, selected_widgets_set,
                       selected_widgets_list, paint_path>>
        /\ IF wheel = <<>>
           THEN \* self.wheel is not set before the first make_word
                /\ scene' = c.scene
                /\ last_path_highlighted' = c.lph
                /\ UNCHANGED <<tile, has_highlighted>>
                /\ last' = Call("word_path", word, 0, "AttributeError", <<>>,
                             last_path_highlighted # 0)
           ELSE LET r == Collect(tile, wheel, word, 1, <<>>)
                    item == PathItem(NewPathId(c.scene, "blue", c.lph), "blue", Polyline(r.selected))
                IN  IF r.selected = <<>>
                    THEN \* selected[0] of an empty list
                         /\ scene' = c.scene
                         /\ last_path_highlighted' = c.lph
                         /\ tile' = r.tile
                         /\ UNCHANGED has_highlighted
                         /\ last' = Call("word_path", word, 0, "IndexError", r.selected,
                             last_path_highlighted # 0)
                    ELSE /\ scene' = c.scene \cup {item}
                         /\ tile' = ResetHits(r.tile, wheel)
                         /\ last_path_highlighted' = item.id
                         /\ has_highlighted' = TRUE
                         /\ last' = Call("word_path", word, 0, "ok", r.selected,
                             last_path_highlighted # 0)

Deselect ==
    LET d == Deselected(scene, last_path_highlighted)
    IN  /\ scene' = d.scene
        /\ last_path_highlighted' = d.lph
        /\ last' = Call("deselect", <<>>, 0, "ok", <<>>,
                             last_path_highlighted # 0)
        /\ emitted' = <<>>
        /\ gesture' = Interrupted(gesture)
        /\ seen' = NotSeen
        /\ UNCHANGED <<tile, wheel>>
        /\ UNCHANGED view_vars

\* --------------------------------------------------------- gesture tracker
\* mouseMoveEvent, lines 96-104: the scene and paint_path after the drawing
\* step, for the list as the move left it
DrawLive(sc, pp, list) ==
    IF Len(list) > 1
    THEN LET p == pp \o Polyline(list)
         IN  [scene |-> sc \cup {PathItem(NewPathId(sc, "green", 0), "green", p)}, paint_path |-> p]
    ELSE [scene |-> sc, paint_path |-> pp]

\* Every path item leaves the scene, whatever its pen (a faulty variant of
\* RemoveLive).
RemovePaths(sc) == {it \in sc : it.kind # "path"}

\* mouseReleaseEvent, lines 107-110: every green path item leaves the scene
RemoveLive(sc) == sc \ Paths(sc, "green")

\* The signal emitted as the last statement of the handler, after the
\* selection is cleared (a faulty variant of SeenAtEmit).
SeenAfterClear(sc, list) == [live |-> Paths(RemoveLive(sc), "green"), selection |-> <<>>]

\* mouseReleaseEvent, line 114: the signal calls its slots where it is
\* emitted, after the loop of lines 107-110 and before the clears of lines
\* 115-118; a slot finds the scene without green items and the list still
\* filled.
SeenAtEmit(sc, list) == [live |-> Paths(RemoveLive(sc), "green"), selection |-> list]

\* A move handled as if the button were always held (a faulty variant of
\* Tracking).
TrackingAlways(pressed) == TRUE

\* mouseMoveEvent: "if self.mouse_pressed"
Tracking(pressed) == pressed

\* A membership test that never finds the tile (a faulty variant of
\* NotSelected).
NotSelectedNever(set, widget) == TRUE

\* mousePressEvent and mouseMoveEvent: "widget not in self.selected_widgets_set"
NotSelected(set, widget) == widget \notin set

MousePress(p) ==
    /\ p \in Targets
    /\ UNCHANGED <<tile, wheel>>
    /\ seen' = NotSeen
    /\ IF has_highlighted
       THEN \* the press is used up to reset the wheel
            LET d == ClearHighlightSlot(scene, last_path_highlighted)
            IN  /\ has_highlighted' = FALSE
                /\ emitted' = <<ClearHighlight>>
                /\ scene' = d.scene
                /\ last_path_highlighted' = d.lph
                /\ mouse_pressed' = FALSE
                /\ UNCHANGED <<selected_widgets_set, selected_widgets_list, paint_path>>
                /\ last' = Call("press", <<>>, p, "ok", <<>>,
                             last_path_highlighted # 0)
                /\ gesture' = [open |-> TRUE, clean |-> FALSE,
                               visited |-> <<>>, entered |-> <<>>]
       ELSE /\ mouse_pressed' = TRUE
            /\ UNCHANGED <<scene, last_path_highlighted, has_highlighted>>
            /\ last' = Call("press", <<>>, p, "ok", <<>>,
                             last_path_highlighted # 0)
            /\ IF p # 0 /\ NotSelected(selected_widgets_set, p)
               THEN /\ paint_path' = <<>>
                    /\ selected_widgets_set' = {p}
                    /\ selected_widgets_list' = <<p>>
                    /\ emitted' = <<MouseOverWidget(p)>>
               ELSE /\ UNCHANGED <<paint_path, selected_widgets_set, selected_widgets_list>>
                    /\ emitted' = <<>>
            /\ gesture' = [open |-> TRUE, clean |-> ~mouse_pressed,
                           visited |-> IF p # 0 /\ ~mouse_pressed THEN <<p>> ELSE <<>>,
                           entered |-> IF p # 0 /\ NotSelected(selected_widgets_set, p)
                                       THEN <<p>> ELSE <<>>]

MouseMove(p) ==
    /\ p \in Targets
    /\ UNCHANGED <<tile, wheel, last_path_highlighted, mouse_pressed, has_highlighted>>
    /\ seen' = NotSeen
    /\ last' = Call("move", <<>>, p, "ok", <<>>,
                             last_path_highlighted # 0)
    /\ LET fresh == Tracking(mouse_pressed) /\ p # 0 /\ NotSelected(selected_widgets_set, p)
           list == IF fresh THEN Append(selected_widgets_list, p) ELSE selected_widgets_list
           d == IF Tracking(mouse_pressed)
                THEN DrawLive(scene, paint_path, list)
                ELSE [scene |-> scene, paint_path |-> paint_path]
       IN  /\ Cardinality(Paths(d.scene, "green")) <= MaxGreen
           /\ selected_widgets_list' = list
           /\ selected_widgets_set' =
                  IF fresh THEN selected_widgets_set \cup {p} ELSE selected_widgets_set
           /\ emitted' = IF fresh THEN <<MouseOverWidget(p)>> ELSE <<>>
           /\ scene' = d.scene
           /\ paint_path' = d.paint_path
           /\ gesture' =
                  IF gesture.open
                  THEN [gesture EXCEPT
                          !.visited = IF gesture.clean /\ p # 0 /\ p \notin Range(@)
                                      THEN Append(@, p) ELSE @,
                          !.entered = IF fresh THEN Append(@, p) ELSE @]
                  ELSE NoGesture

MouseRelease ==
    /\ UNCHANGED <<tile, wheel, last_path_highlighted, has_highlighted>>
    /\ scene' = RemoveLive(scene)
    /\ emitted' = <<MouseReleaseProc(JoinAlpha(tile, selected_widgets_list))>>
    /\ seen' = SeenAtEmit(scene, selected_widgets_list)
    /\ selected_widgets_set' = {}
    /\ selected_widgets_list' = <<>>
    /\ mouse_pressed' = FALSE
    /\ paint_path' = <<>>
    /\ last' = Call("release", <<>>, 0, "ok", <<>>,
                             last_path_highlighted # 0)
    /\ gesture' = [gesture EXCEPT !.open = FALSE, !.clean = gesture.open /\ @,
                                  !.visited = IF gesture.open /\ gesture.clean THEN @ ELSE <<>>,
                                  !.entered = IF gesture.open THEN @ ELSE <<>>]

\* ------------------------------------------------------------ the program
\* LetterArea.__init__ and LetterAreaView.__init__
Init ==
    /\ tile = <<>>
    /\ scene = {}
    /\ wheel = <<>>
    /\ last_path_highlighted = 0
    /\ mouse_pressed = FALSE
    /\ selected_widgets_set = {}
    /\ selected_widgets_list = <<>>
    /\ has_highlighted = FALSE
    /\ paint_path = <<>>
    /\ last = Call("init", <<>>, 0, "ok", <<>>, FALSE)
    /\ emitted = <<>>
    /\ gesture = NoGesture
    /\ seen = NotSeen

Next ==
    \/ \E w \in LoadWords : MakeWord(w)
    \/ \E w \in HighlightWords : WordPath(w)
    \/ Deselect
    \/ \E p \in Targets : MousePress(p)
    \/ \E p \in Targets : MouseMove(p)
    \/ MouseRelease

Spec == Init /\ [][Next]_vars

\* ------------------------------------------------------------------ claims
\* The characters of a list of tiles, in order.
WordOf(list) == [i \in 1..Len(list) |-> tile[list[i]].alpha]

\* The tracker's states: a replay highlight is waiting for its dismissing
\* press, a press has armed the drag, or neither.
Highlighted == has_highlighted
Dragging == ~has_highlighted /\ mouse_pressed
Idle == ~has_highlighted /\ ~mouse_pressed

Occurrences(seq, a) == Cardinality({i \in DOMAIN seq : seq[i] = a})

\* The wheel holds every letter of word as often as word asks for it.
Feasible(word) ==
    \A a \in Alphabet : Occurrences(word, a) <= Occurrences(WordOf(wheel), a)

\* The anchors a path item goes through, in order.
Anchors(it) == [i \in 1..Len(it.path) |-> it.path[i].to]

\* C1: a gesture that starts in Idle with a press and ends with the release,
\* with only moves in between, over tiles T1..Tk in first-visit order (k >= 1):
\* while the gesture runs the Selection is T1..Tk, each once, and the release
\* emits the characters of T1..Tk as the word.
C1_DragSpellsVisited ==
    /\ (gesture.open /\ gesture.clean /\ gesture.visited # <<>>)
           => selected_widgets_list = gesture.visited
    /\ (last.op = "release" /\ gesture.clean /\ gesture.visited # <<>>)
           => emitted = <<MouseReleaseProc(WordOf(gesture.visited))>>

\* C2: word_path with a word the wheel cannot supply ends in an error and
\* changes nothing: the scene, last_path_highlighted, has_highlighted and
\* every hit flag are as before the call.
C2_FailedHighlightAllOrNothing ==
    [][(last'.op = "word_path" /\ ~Feasible(last'.word))
          => /\ last'.outcome # "ok"
             /\ scene' = scene
             /\ last_path_highlighted' = last_path_highlighted
             /\ has_highlighted' = has_highlighted
             /\ tile' = tile]_vars

\* C3: a press while a replay highlight is showing takes the highlight off
\* the scene, leaves the Selection empty, emits no mouseOverWidget and leaves
\* mouse_pressed false; a move right after that press adds nothing to the
\* Selection.
C3_PressDismissesHighlight ==
    [][/\ (last'.op = "press" /\ Highlighted /\ Paths(scene, "blue") # {})
            => /\ Paths(scene', "blue") = {}
               /\ selected_widgets_list' = <<>>
               /\ selected_widgets_set' = {}
               /\ \A i \in DOMAIN emitted' : emitted'[i].sig # "mouseOverWidget"
               /\ ~mouse_pressed'
       /\ (last.op = "press" /\ emitted = <<ClearHighlight>> /\ last'.op = "move")
            => selected_widgets_list' = selected_widgets_list]_vars

\* The wheel "TRACTOR", for the example of C4.
TractorTiles ==
    [i \in 1..7 |-> [alpha |-> <<"T", "R", "A", "C", "T", "O", "R">>[i],
                     idx |-> i - 1, n |-> 7, hit |-> FALSE]]

\* C4: word_path with a word the loaded wheel can supply collects Len(word)
\* pairwise distinct tiles; the k-th has the k-th character of the word and is
\* the lowest-index wheel tile with that character not collected for an
\* earlier position; for a word of at least one letter the call succeeds and
\* the blue path it draws goes through the anchors of the collected tiles in
\* that order (for the empty word nothing is collected and no path is drawn).
\* "CAT" on "TRACTOR" collects the wheel indices 3, 2, 0.
C4_GreedyAssignment ==
    /\ (last.op = "word_path" /\ wheel # <<>> /\ Feasible(last.word)) =>
          LET sel == last.selected
              word == last.word
              pos(t) == CHOOSE i \in DOMAIN wheel : wheel[i] = t
          IN  /\ Len(sel) = Len(word)
              /\ \A j, k \in DOMAIN sel : j # k => sel[j] # sel[k]
              /\ \A k \in DOMAIN sel :
                    /\ sel[k] \in Range(wheel)
                    /\ tile[sel[k]].alpha = word[k]
                    /\ pos(sel[k]) = Min({i \in DOMAIN wheel :
                                            /\ tile[wheel[i]].alpha = word[k]
                                            /\ \A j \in 1..(k - 1) : sel[j] # wheel[i]})
              /\ word # <<>> =>
                    /\ last.outcome = "ok"
                    /\ \E it \in Paths(scene, "blue") :
                          it.id = last_path_highlighted /\ Anchors(it) = sel
    /\ Collect(TractorTiles, <<1, 2, 3, 4, 5, 6, 7>>, <<"C", "A", "T">>, 1, <<>>).selected
          = <<4, 3, 1>>

\* C4 witness: a word with a letter twice was highlighted on a wheel that
\* holds the letter twice.
C4_Witness ==
    /\ last.op = "word_path"
    /\ last.outcome = "ok"
    /\ last.word = <<"A", "A">>
    /\ Len(last.selected) = 2
    /\ Feasible(last.word)

\* C5: the scene holds at most one blue path item, the one
\* last_path_highlighted holds; after a word_path that draws, it is the path
\* of that call, whether or not a highlight was showing before; deselect with
\* no highlight held changes nothing.
C5_OneReplayHighlight ==
    /\ [](/\ Cardinality(Paths(scene, "blue")) <= 1
          /\ \A it \in Paths(scene, "blue") : it.id = last_path_highlighted
          /\ (last.op = "word_path" /\ last.outcome = "ok")
                => \E it \in Paths(scene, "blue") : Anchors(it) = last.selected)
    /\ [][(last'.op = "deselect" /\ last_path_highlighted = 0)
             => UNCHANGED <<area_vars, view_vars>>]_vars

\* C5 witness: a second highlight was drawn while the first was still showing.
C5_Witness ==
    /\ last.op = "word_path"
    /\ last.outcome = "ok"
    /\ last.showing
    /\ Cardinality(Paths(scene, "blue")) = 1

\* C6: the scene holds at most one green path item, and while a drag runs it
\* is the polyline through the anchors of the selected tiles in selection
\* order.
C6_OneLivePath ==
    /\ Cardinality(Paths(scene, "green")) <= 1
    /\ mouse_pressed =>
          \A it \in Paths(scene, "green") : it.path = Polyline(selected_widgets_list)

\* C7: after make_word(W) with Len(W) = n >= 1, whatever was loaded before,
\* exactly n tiles are on the scene and in the wheel, the tile at index i has
\* character W[i] and angle 2*pi*i/n, no two tiles share an angle, and
\* hit-testing returns tiles of the wheel only.
C7_LoadReplacesTiles ==
    (last.op = "make_word" /\ last.outcome = "ok") =>
        LET W == last.word
            n == Len(W)
        IN  /\ n >= 1
            /\ Len(wheel) = n
            /\ Pixmaps(scene) = Range(wheel)
            /\ Cardinality(Pixmaps(scene)) = n
            /\ \A i \in 1..n :
                  /\ tile[wheel[i]].alpha = W[i]
                  /\ tile[wheel[i]].idx = i - 1
                  /\ tile[wheel[i]].n = n
            /\ \A t, u \in Pixmaps(scene) : t # u => ~SameAngle(tile[t], tile[u])
            /\ Targets \subseteq {0} \cup Range(wheel)

\* C8: a press over no tile in Idle, and a move over no tile in any state,
\* change neither the tracker's state nor the Selection nor the items on the
\* scene, emit nothing and raise nothing.
C8_EmptySpaceIgnored ==
    [][(\/ last'.op = "press" /\ last'.at = 0 /\ Idle
        \/ last'.op = "move" /\ last'.at = 0)
          => /\ mouse_pressed' = mouse_pressed
             /\ has_highlighted' = has_highlighted
             /\ selected_widgets_list' = selected_widgets_list
             /\ selected_widgets_set' = selected_widgets_set
             /\ scene' = scene
             /\ emitted' = <<>>
             /\ last'.outcome = "ok"]_vars

\* C9: every release ends normally and emits one signal, mouseReleaseProc
\* with the characters of the tiles the Selection held, in order: the empty
\* word for no tile, the tile's character for one tile.
C9_ReleaseEmitsWord ==
    /\ [](last.op = "release"
            => /\ last.outcome = "ok"
               /\ Len(emitted) = 1
               /\ emitted[1].sig = "mouseReleaseProc")
    /\ [][last'.op = "release"
            => /\ emitted' = <<MouseReleaseProc(WordOf(selected_widgets_list))>>
               /\ Len(selected_widgets_list) = 0 => emitted'[1].word = <<>>
               /\ Len(selected_widgets_list) = 1
                     => emitted'[1].word = <<tile[selected_widgets_list[1]].alpha>>]_vars

\* C9 witness: a release with one tile selected emitted that tile's
\* character.
C9_Witness ==
    /\ last.op = "release"
    /\ Len(gesture.entered) = 1
    /\ emitted = <<MouseReleaseProc(WordOf(gesture.entered))>>

\* C10: between calls no tile is hit, so what word_path collects is what the
\* loop collects from a wheel with no tile hit; and after a word_path that
\* drew, the blue path is on the scene.
C10_HitFlagsReset ==
    /\ \A t \in DOMAIN tile : ~tile[t].hit
    /\ (last.op = "word_path" /\ wheel # <<>>) =>
          last.selected =
              Collect([t \in DOMAIN tile |-> [tile[t] EXCEPT !.hit = FALSE]],
                      wheel, last.word, 1, <<>>).selected
    /\ (last.op = "word_path" /\ last.outcome = "ok") =>
          \E it \in Paths(scene, "blue") : it.id = last_path_highlighted

\* C10 witness: a second word_path in a row has collected tiles the first
\* one had hit.
C10_Witness ==
    /\ last.op = "word_path"
    /\ last.outcome = "ok"
    /\ last.showing
    /\ Len(last.selected) = 2
    /\ \E it \in Paths(scene, "blue") : Anchors(it) = last.selected

C12_IdleMoveIgnored ==
    [][(last'.op = "move" /\ ~mouse_pressed)
          => /\ UNCHANGED <<selected_widgets_list, selected_widgets_set, scene,
                            paint_path, mouse_pressed, has_highlighted>>
             /\ emitted' = <<>>]_vars

\* C12 witness: the pointer moved over a tile right after a press that was
\* used up to dismiss a highlight.
C12_Witness ==
    /\ last.op = "move"
    /\ last.at # 0
    /\ ~mouse_pressed
    /\ gesture.open
    /\ ~gesture.clean
    /\ selected_widgets_list = <<>>
    /\ emitted = <<>>

\* The tiles a call's mouseOverWidget signals named, in order.
Entered(sigs) ==
    LET at == {i \in DOMAIN sigs : sigs[i].sig = "mouseOverWidget"}
    IN  IF at = {} THEN <<>> ELSE <<sigs[Min(at)].widget>>

\* C13: mouseOverWidget is emitted for a tile exactly when the tile is
\* appended to the Selection; so at the release of a gesture (a press in Idle,
\* then moves only) the tiles notified since the press are the Selection, and
\* the word emitted is their characters in notification order.
C13_EnteredIsSelection ==
    [][/\ Entered(emitted') # <<>>
            => /\ last'.op \in {"press", "move"}
               /\ \/ selected_widgets_list' = Append(selected_widgets_list, Entered(emitted')[1])
                  \/ selected_widgets_list' = Entered(emitted')
       /\ (selected_widgets_list' # selected_widgets_list /\ selected_widgets_list' # <<>>)
            => Entered(emitted') = <<selected_widgets_list'[Len(selected_widgets_list')]>>
       /\ (last'.op = "release" /\ gesture.open /\ gesture.clean)
            => /\ selected_widgets_list = gesture.entered
               /\ emitted' = <<MouseReleaseProc(WordOf(gesture.entered))>>]_vars

\* C14: the release removes every green path item, then emits the word while
\* the Selection still holds the tiles, then clears the Selection; when it
\* has been handled the Selection is empty, no green path item is on the
\* scene and the button is not held.
C14_ReleaseOrder ==
    [][last'.op = "release"
          => /\ seen'.live = {}
             /\ seen'.selection = selected_widgets_list
             /\ emitted' = <<MouseReleaseProc(WordOf(seen'.selection))>>
             /\ selected_widgets_list' = <<>>
             /\ selected_widgets_set' = {}
             /\ Paths(scene', "green") = {}
             /\ ~mouse_pressed']_vars

C14_Witness ==
    /\ last.op = "release"
    /\ Len(seen.selection) = 2
    /\ emitted = <<MouseReleaseProc(WordOf(seen.selection))>>
    /\ selected_widgets_list = <<>>
    /\ Paths(scene, "green") = {}

\* C15: a move or a release removes nothing from the scene but green path
\* items: the blue highlight, the red polygon and the tiles stay.  A blue
\* highlight leaves the scene only in a press that finds has_highlighted
\* set, in deselect() or in a word_path() call.
C15_GestureKeepsShapes ==
    [][/\ last'.op \in {"move", "release"}
            => (scene \ Paths(scene, "green")) \subseteq scene'
       /\ Paths(scene, "blue") \ scene' # {}
            => \/ last'.op \in {"deselect", "word_path"}
               \/ last'.op = "press" /\ has_highlighted]_vars

C15_Witness ==
    /\ last.op = "release"
    /\ Len(seen.selection) = 2
    /\ Paths(scene, "blue") # {}
    /\ Paths(scene, "red") # {}
    /\ Paths(scene, "green") = {}
    /\ Range(wheel) \subseteq Pixmaps(scene)

\* C16: has_highlighted is set exactly when last_path_highlighted holds a
\* blue item on the scene, and no press is used up as a dismissing press
\* when no highlight is showing.
C16_FlagMatchesHighlight ==
    /\ [](has_highlighted <=> (last_path_highlighted # 0
                                 /\ \E it \in Paths(scene, "blue") : it.id = last_path_highlighted))
    /\ [][(last'.op = "press" /\ emitted' = <<ClearHighlight>>)
             => last_path_highlighted # 0]_vars

\* C17: whenever mouse_pressed is false the Selection is empty.
C17_IdleSelectionEmpty ==
    ~mouse_pressed => (selected_widgets_list = <<>> /\ selected_widgets_set = {})

NoDuplicates(list) == \A i, j \in DOMAIN list : list[i] = list[j] => i = j

\* C18: selected_widgets_set holds exactly the tiles of selected_widgets_list,
\* and no tile is in selected_widgets_list twice.
C18_SetMatchesList ==
    /\ selected_widgets_set = Range(selected_widgets_list)
    /\ NoDuplicates(selected_widgets_list)

C18_Witness ==
    /\ last.op = "move"
    /\ last.at \in Range(SubSeq(selected_widgets_list, 1, Len(selected_widgets_list) - 1))
    /\ emitted = <<>>
    /\ Len(selected_widgets_list) = 2
    /\ selected_widgets_set = Range(selected_widgets_list)

====
